---------------------------- MODULE Spec2Model ----------------------------
(***************************************************************************)
(* Frame-driven timeline of the KiForge symbol-generator video.            *)
(*                                                                         *)
(* The program is a set of module-level timing constants, evaluated once   *)
(* in declaration order when the module is loaded, and a set of functions  *)
(* and components that map the current frame to visual values.  The model  *)
(* has one action for the module load (one declaration per step) and one   *)
(* action per function or component; the variable `last` holds what the    *)
(* most recent evaluation computed.                                        *)
(*                                                                         *)
(* Real numbers are fixed point: a value v stands for v / Q.  The values   *)
(* the code computes with cubic easings at multiples of 1/5 are exact in   *)
(* this representation; values of Remotion's spring() and Easing.bezier()  *)
(* are tabulated to the nearest 1/Q.                                       *)
(***************************************************************************)
EXTENDS Integers, Sequences, FiniteSets, TLC

VARIABLES
    pc,         \* number of timing declarations evaluated so far
    env,        \* name -> value of the timing constants initialised so far
    loadError,  \* a declaration read a constant that was not yet initialised
    last        \* the most recent evaluation: [op |-> ..., inputs, outputs]

vars == <<pc, env, loadError, last>>

\* Fixed-point unit: 1.0 is Q.
Q == 10^3

\* Frames explored: -NegFrames .. MaxFrame.
NegFrames == 12
MaxFrame == 230
Frames == (0 - NegFrames)..MaxFrame

-----------------------------------------------------------------------------
(* TIMING CONSTANTS (src/src/Composition.tsx, lines 14-139)                *)

BLANK_DURATION == 10
FIRST_WORD_APPEAR == BLANK_DURATION
WORD_STAGGER == 3
EASE_DURATION == 5
WORD_START_OFFSET == 25

LAST_WORDLET_INDEX == 8
\* Variant: the last wordlet is not waited for.
WORDLETS_DONE_FRAME_Short ==
    FIRST_WORD_APPEAR + (LAST_WORDLET_INDEX - 1) * WORD_STAGGER + EASE_DURATION
WORDLETS_DONE_FRAME ==
    FIRST_WORD_APPEAR + LAST_WORDLET_INDEX * WORD_STAGGER + EASE_DURATION
SYMBOL_FRAME_DELAY == 0
SYMBOL_FRAME_START == WORDLETS_DONE_FRAME + SYMBOL_FRAME_DELAY
SYMBOL_FRAME_EASE_DURATION == 5
SYMBOL_FRAME_START_OFFSET == 400
SYMBOL_LINE_STAGGER == 1
\* Variant: the ease of the last line is not waited for.
SYMBOL_FRAME_DONE_Early == SYMBOL_FRAME_START + 5 * SYMBOL_LINE_STAGGER
SYMBOL_FRAME_DONE ==
    SYMBOL_FRAME_START + 5 * SYMBOL_LINE_STAGGER + SYMBOL_FRAME_EASE_DURATION

LINE_EXTENSION_DELAY == 2
OPENING_TEXT_DISAPPEAR_DELAY == 4
LINE_EXTENSION_START == SYMBOL_FRAME_DONE + LINE_EXTENSION_DELAY
\* Variant: the text is hidden the moment the line extension starts.
OPENING_TEXT_DISAPPEAR_START_Instant == LINE_EXTENSION_START
\* Variant: the text is hidden before the last wordlet has settled.
OPENING_TEXT_DISAPPEAR_START_Early == WORDLETS_DONE_FRAME - 2
OPENING_TEXT_DISAPPEAR_START ==
    LINE_EXTENSION_START + OPENING_TEXT_DISAPPEAR_DELAY
LINE_EXTENSION_TOTAL_DURATION == 10
LINE_EXTENSION_END == LINE_EXTENSION_START + LINE_EXTENSION_TOTAL_DURATION

GRID_APPEAR_START == SYMBOL_FRAME_DONE - 3
GRID_APPEAR_DURATION == 15
GRID_ROTATE_DELAY == 0
GRID_ROTATE_START == GRID_APPEAR_START + GRID_APPEAR_DURATION + GRID_ROTATE_DELAY
GRID_ROTATE_DURATION == 25
GRID_FINE_FADE_DURATION == 10

FRAME_GROW_DELAY_FROM_GRID_ROTATE == 10
\* Variant: the delay is subtracted.
FRAME_GROW_START_Early ==
    GRID_ROTATE_START - FRAME_GROW_DELAY_FROM_GRID_ROTATE
FRAME_GROW_START == GRID_ROTATE_START + FRAME_GROW_DELAY_FROM_GRID_ROTATE
FRAME_GROW_TARGET_HEIGHT == 320

FILL_COLOR_TRANSITION_DELAY == 3
FILL_COLOR_TRANSITION_START == FRAME_GROW_START + FILL_COLOR_TRANSITION_DELAY
STROKE_COLOR_TRANSITION_DELAY == 1
STROKE_COLOR_TRANSITION_START ==
    FILL_COLOR_TRANSITION_START + STROKE_COLOR_TRANSITION_DELAY

PINS_SWING_DELAY == 6
PINS_SWING_START == FRAME_GROW_START + PINS_SWING_DELAY
PINS_SWING_STAGGER == 2

\* Variant: the last regular pin is left out of the count.
PINS_DONE_FRAME_Short == PINS_SWING_START + 3 * PINS_SWING_STAGGER + 20
PINS_DONE_FRAME == PINS_SWING_START + 4 * PINS_SWING_STAGGER + 20
CURSOR_DRAG_DELAY == 0
CURSOR_DRAG_START == PINS_DONE_FRAME + CURSOR_DRAG_DELAY
CURSOR_DRAG_DURATION == 25

CLICK_SPARK_START == CURSOR_DRAG_START + CURSOR_DRAG_DURATION
CLICK_SPARK_DURATION == 12

ZOOM_DELAY == 8
ZOOM_START == CLICK_SPARK_START + CLICK_SPARK_DURATION + ZOOM_DELAY
ZOOM_DURATION == 18
ZOOM_SCALE == 15

LOGO_ZOOM_DELAY == 0
LOGO_ZOOM_START == ZOOM_START + ZOOM_DURATION + LOGO_ZOOM_DELAY
LOGO_ZOOM_DURATION == 20

BROWSER_ZOOM_START == LOGO_ZOOM_START + LOGO_ZOOM_DURATION
BROWSER_ZOOM_DURATION == 15

SEARCH_BAR_APPEAR_DELAY == 8
SEARCH_BAR_APPEAR_START == BROWSER_ZOOM_START + SEARCH_BAR_APPEAR_DELAY
SEARCH_BAR_APPEAR_DURATION == 15

HEADLINE_APPEAR_DELAY == 12
HEADLINE_APPEAR_START == BROWSER_ZOOM_START + HEADLINE_APPEAR_DELAY
HEADLINE_APPEAR_DURATION == 12

SECOND_TEXT_DELAY == 2
SECOND_TEXT_START == PINS_SWING_START + SECOND_TEXT_DELAY
SECOND_TEXT_STAGGER == 1
SECOND_TEXT_EASE_DURATION == 5

\* One declaration of the timing block: the constant it initialises, the
\* constants its initialiser reads, the keyframe it is derived from ("" for
\* a literal) and the value the initialiser yields.
Decl(n, u, b, v) == [name |-> n, uses |-> u, base |-> b, value |-> v]

\* The declarations in source order.
TIMING_DECLS == <<
    Decl("BLANK_DURATION", {}, "", BLANK_DURATION),
    Decl("FIRST_WORD_APPEAR", {"BLANK_DURATION"}, "BLANK_DURATION",
         FIRST_WORD_APPEAR),
    Decl("WORD_STAGGER", {}, "", WORD_STAGGER),
    Decl("EASE_DURATION", {}, "", EASE_DURATION),
    Decl("WORD_START_OFFSET", {}, "", WORD_START_OFFSET),
    Decl("LAST_WORDLET_INDEX", {}, "", LAST_WORDLET_INDEX),
    Decl("WORDLETS_DONE_FRAME",
         {"FIRST_WORD_APPEAR", "LAST_WORDLET_INDEX", "WORD_STAGGER",
          "EASE_DURATION"}, "FIRST_WORD_APPEAR", WORDLETS_DONE_FRAME),
    Decl("SYMBOL_FRAME_DELAY", {}, "", SYMBOL_FRAME_DELAY),
    Decl("SYMBOL_FRAME_START", {"WORDLETS_DONE_FRAME", "SYMBOL_FRAME_DELAY"},
         "WORDLETS_DONE_FRAME", SYMBOL_FRAME_START),
    Decl("SYMBOL_FRAME_EASE_DURATION", {}, "", SYMBOL_FRAME_EASE_DURATION),
    Decl("SYMBOL_FRAME_START_OFFSET", {}, "", SYMBOL_FRAME_START_OFFSET),
    Decl("SYMBOL_LINE_STAGGER", {}, "", SYMBOL_LINE_STAGGER),
    Decl("SYMBOL_FRAME_DONE",
         {"SYMBOL_FRAME_START", "SYMBOL_LINE_STAGGER",
          "SYMBOL_FRAME_EASE_DURATION"}, "SYMBOL_FRAME_START",
         SYMBOL_FRAME_DONE),
    Decl("LINE_EXTENSION_DELAY", {}, "", LINE_EXTENSION_DELAY),
    Decl("OPENING_TEXT_DISAPPEAR_DELAY", {}, "", OPENING_TEXT_DISAPPEAR_DELAY),
    Decl("LINE_EXTENSION_START", {"SYMBOL_FRAME_DONE", "LINE_EXTENSION_DELAY"},
         "SYMBOL_FRAME_DONE", LINE_EXTENSION_START),
    Decl("OPENING_TEXT_DISAPPEAR_START",
         {"LINE_EXTENSION_START", "OPENING_TEXT_DISAPPEAR_DELAY"},
         "LINE_EXTENSION_START", OPENING_TEXT_DISAPPEAR_START),
    Decl("LINE_EXTENSION_TOTAL_DURATION", {}, "",
         LINE_EXTENSION_TOTAL_DURATION),
    Decl("LINE_EXTENSION_END",
         {"LINE_EXTENSION_START", "LINE_EXTENSION_TOTAL_DURATION"},
         "LINE_EXTENSION_START", LINE_EXTENSION_END),
    Decl("GRID_APPEAR_START", {"SYMBOL_FRAME_DONE"}, "SYMBOL_FRAME_DONE",
         GRID_APPEAR_START),
    Decl("GRID_APPEAR_DURATION", {}, "", GRID_APPEAR_DURATION),
    Decl("GRID_ROTATE_DELAY", {}, "", GRID_ROTATE_DELAY),
    Decl("GRID_ROTATE_START",
         {"GRID_APPEAR_START", "GRID_APPEAR_DURATION", "GRID_ROTATE_DELAY"},
         "GRID_APPEAR_START", GRID_ROTATE_START),
    Decl("GRID_ROTATE_DURATION", {}, "", GRID_ROTATE_DURATION),
    Decl("GRID_FINE_FADE_DURATION", {}, "", GRID_FINE_FADE_DURATION),
    Decl("FRAME_GROW_DELAY_FROM_GRID_ROTATE", {}, "",
         FRAME_GROW_DELAY_FROM_GRID_ROTATE),
    Decl("FRAME_GROW_START",
         {"GRID_ROTATE_START", "FRAME_GROW_DELAY_FROM_GRID_ROTATE"},
         "GRID_ROTATE_START", FRAME_GROW_START),
    Decl("FRAME_GROW_TARGET_HEIGHT", {}, "", FRAME_GROW_TARGET_HEIGHT),
    Decl("FILL_COLOR_TRANSITION_DELAY", {}, "", FILL_COLOR_TRANSITION_DELAY),
    Decl("FILL_COLOR_TRANSITION_START",
         {"FRAME_GROW_START", "FILL_COLOR_TRANSITION_DELAY"},
         "FRAME_GROW_START", FILL_COLOR_TRANSITION_START),
    Decl("STROKE_COLOR_TRANSITION_DELAY", {}, "",
         STROKE_COLOR_TRANSITION_DELAY),
    Decl("STROKE_COLOR_TRANSITION_START",
         {"FILL_COLOR_TRANSITION_START", "STROKE_COLOR_TRANSITION_DELAY"},
         "FILL_COLOR_TRANSITION_START", STROKE_COLOR_TRANSITION_START),
    Decl("PINS_SWING_DELAY", {}, "", PINS_SWING_DELAY),
    Decl("PINS_SWING_START", {"FRAME_GROW_START", "PINS_SWING_DELAY"},
         "FRAME_GROW_START", PINS_SWING_START),
    Decl("PINS_SWING_STAGGER", {}, "", PINS_SWING_STAGGER),
    Decl("PINS_DONE_FRAME", {"PINS_SWING_START", "PINS_SWING_STAGGER"},
         "PINS_SWING_START", PINS_DONE_FRAME),
    Decl("CURSOR_DRAG_DELAY", {}, "", CURSOR_DRAG_DELAY),
    Decl("CURSOR_DRAG_START", {"PINS_DONE_FRAME", "CURSOR_DRAG_DELAY"},
         "PINS_DONE_FRAME", CURSOR_DRAG_START),
    Decl("CURSOR_DRAG_DURATION", {}, "", CURSOR_DRAG_DURATION),
    Decl("CLICK_SPARK_START", {"CURSOR_DRAG_START", "CURSOR_DRAG_DURATION"},
         "CURSOR_DRAG_START", CLICK_SPARK_START),
    Decl("CLICK_SPARK_DURATION", {}, "", CLICK_SPARK_DURATION),
    Decl("ZOOM_DELAY", {}, "", ZOOM_DELAY),
    Decl("ZOOM_START",
         {"CLICK_SPARK_START", "CLICK_SPARK_DURATION", "ZOOM_DELAY"},
         "CLICK_SPARK_START", ZOOM_START),
    Decl("ZOOM_DURATION", {}, "", ZOOM_DURATION),
    Decl("ZOOM_SCALE", {}, "", ZOOM_SCALE),
    Decl("LOGO_ZOOM_DELAY", {}, "", LOGO_ZOOM_DELAY),
    Decl("LOGO_ZOOM_START", {"ZOOM_START", "ZOOM_DURATION", "LOGO_ZOOM_DELAY"},
         "ZOOM_START", LOGO_ZOOM_START),
    Decl("LOGO_ZOOM_DURATION", {}, "", LOGO_ZOOM_DURATION),
    Decl("BROWSER_ZOOM_START", {"LOGO_ZOOM_START", "LOGO_ZOOM_DURATION"},
         "LOGO_ZOOM_START", BROWSER_ZOOM_START),
    Decl("BROWSER_ZOOM_DURATION", {}, "", BROWSER_ZOOM_DURATION),
    Decl("SEARCH_BAR_APPEAR_DELAY", {}, "", SEARCH_BAR_APPEAR_DELAY),
    Decl("SEARCH_BAR_APPEAR_START",
         {"BROWSER_ZOOM_START", "SEARCH_BAR_APPEAR_DELAY"},
         "BROWSER_ZOOM_START", SEARCH_BAR_APPEAR_START),
    Decl("SEARCH_BAR_APPEAR_DURATION", {}, "", SEARCH_BAR_APPEAR_DURATION),
    Decl("HEADLINE_APPEAR_DELAY", {}, "", HEADLINE_APPEAR_DELAY),
    Decl("HEADLINE_APPEAR_START",
         {"BROWSER_ZOOM_START", "HEADLINE_APPEAR_DELAY"},
         "BROWSER_ZOOM_START", HEADLINE_APPEAR_START),
    Decl("HEADLINE_APPEAR_DURATION", {}, "", HEADLINE_APPEAR_DURATION),
    Decl("SECOND_TEXT_DELAY", {}, "", SECOND_TEXT_DELAY),
    Decl("SECOND_TEXT_START", {"PINS_SWING_START", "SECOND_TEXT_DELAY"},
         "PINS_SWING_START", SECOND_TEXT_START),
    Decl("SECOND_TEXT_STAGGER", {}, "", SECOND_TEXT_STAGGER),
    Decl("SECOND_TEXT_EASE_DURATION", {}, "", SECOND_TEXT_EASE_DURATION)
>>

\* The module is loaded once every declaration has been evaluated.
Loaded == pc = Len(TIMING_DECLS) /\ ~loadError

\* A binding of the load environment.
Bind(n, v) == [x \in {n} |-> v]

\* Module load, one declaration per step: a const read before its own
\* declaration has run is in its temporal dead zone and throws.
LoadDeclaration ==
    /\ pc < Len(TIMING_DECLS)
    /\ ~loadError
    /\ LET d == TIMING_DECLS[pc + 1]
       IN  IF d.uses \subseteq DOMAIN env
           THEN /\ env' = env @@ Bind(d.name, d.value)
                /\ pc' = pc + 1
                /\ UNCHANGED loadError
           ELSE /\ loadError' = TRUE
                /\ UNCHANGED <<pc, env>>
    /\ UNCHANGED last

-----------------------------------------------------------------------------
(* LETTER DATA                                                             *)

OPENING_TEXT_LENGTH == 30
OPENING_WORDLET_BOUNDARIES == <<0, 5, 10, 13, 17, 21, 24, 27, 29, 30>>
SECOND_TEXT_LENGTH == 31
SECOND_WORDLET_BOUNDARIES == <<0, 2, 4, 7, 11, 13, 17, 19, 23, 26, 30, 31>>

\* The scan "for (i = length - 1; i >= 0; i--) if (letterIndex >= b[i])
\* return i; return 0" over a boundary list b (0-based i is b[i + 1] here).
WordletIndexIn(b, letterIndex) ==
    LET hits == {i \in 0..(Len(b) - 1) : letterIndex >= b[i + 1]}
    IN  IF hits = {} THEN 0
        ELSE CHOOSE i \in hits : \A j \in hits : j <= i

getOpeningWordletIndex(letterIndex) ==
    WordletIndexIn(OPENING_WORDLET_BOUNDARIES, letterIndex)

getSecondWordletIndex(letterIndex) ==
    WordletIndexIn(SECOND_WORDLET_BOUNDARIES, letterIndex)

-----------------------------------------------------------------------------
(* EASINGS AND INTERPOLATION (Remotion)                                    *)

\* interpolate(x, [i0, i1], [0, 1]) for integer x, i0 < i1, as a fraction of
\* Q; each side clamps when asked to and extends the line otherwise.
Progress(x, i0, i1, clampLeft, clampRight) ==
    LET c == IF x < i0 /\ clampLeft THEN i0
             ELSE IF x > i1 /\ clampRight THEN i1 ELSE x
    IN  ((c - i0) * Q) \div (i1 - i0)

\* Easing.cubic: t^3, on fixed point.
Cubic(t) == (t * t * t) \div (Q * Q)

\* Easing.out(Easing.cubic): 1 - cubic(1 - t).
EaseOutCubic(t) == Q - Cubic(Q - t)

\* Easing.bezier(0.22, 1, 0.36, 1) at the progress k/5, to the nearest 1/Q.
BEZIER_WHIZZ == <<0, 674, 917, 984, 999, 1000>>
BezierWhizz(k) == BEZIER_WHIZZ[k + 1]

\* Easing.inOut(Easing.cubic): cubic(2t)/2 below 1/2, 1 - cubic(2(1-t))/2
\* from there on.
EaseInOutCubic(t) ==
    IF 2 * t < Q THEN Cubic(2 * t) \div 2
    ELSE Q - (Cubic(2 * (Q - t)) \div 2)

\* interpolate(p, [0, 1], [o0, o1]) with no clamping, p in fixed point.
Lerp(p, o0, o1) == o0 * Q + (o1 - o0) * p

\* spring({fps, frame, config, durationInFrames}) at the frames 0 ..
\* durationInFrames, to the nearest 1/Q, at 30 frames per second: the
\* damped oscillator of the config, its time axis scaled so that its
\* natural settling time (first frame from which it stays within 0.005 of
\* the target) falls on durationInFrames.
\* Variant: the frame-growth spring with its overshoot cut off at the target.
GROWTH_SPRING_Clamped ==
    <<0, 149, 444, 731, 938, 1000, 1000, 1000, 1000, 1000, 1000, 998, 992,
      991, 993, 996>>
\* damping 12, mass 1, stiffness 100, durationInFrames 15 (frame growth)
GROWTH_SPRING ==
    <<0, 149, 444, 731, 938, 1052, 1093, 1088, 1062, 1033, 1011, 998, 992,
      991, 993, 996>>
\* damping 12, mass 10, stiffness 120, durationInFrames 15 (grid exclusion)
GRID_GROWTH_SPRING ==
    <<0, 1141, 1433, 706, 932, 1183, 940, 938, 1062, 999, 969, 1016, 1007,
      988, 1002, 1005>>
\* damping 14, mass 0.8, stiffness 100, durationInFrames 18 (fill, stroke)
COLOR_SPRING ==
    <<0, 69, 221, 397, 564, 706, 817, 897, 952, 987, 1007, 1016, 1019, 1018,
      1016, 1012, 1009, 1006, 1004>>
\* damping 15, mass 0.6, stiffness 250, durationInFrames 20 (pin swing)
SWING_SPRING ==
    <<0, 93, 297, 530, 739, 900, 1006, 1065, 1086, 1084, 1068, 1048, 1029,
      1013, 1002, 996, 993, 992, 993, 995, 997>>
\* damping 12, mass 0.5, stiffness 200, durationInFrames 15 (pin number)
NUMBER_SPRING ==
    <<0, 149, 444, 731, 938, 1052, 1093, 1088, 1062, 1033, 1011, 998, 992,
      991, 993, 996>>

\* What spring() may hand back for a negative frame.  Remotion returns the
\* start value 0; the components guard every spring with a comparison of
\* the frame against the trigger, and the model lets the evaluator return
\* any of these values so that the guard, not the evaluator, is what is
\* checked.
SPRING_PRE_TRIGGER == {0, Q \div 2, 0 - Q}

\* spring() with durationInFrames: past the duration the target, exactly.
spring(table, elapsed, pre) ==
    IF elapsed < 0 THEN pre
    ELSE IF elapsed > Len(table) - 1 THEN Q
    ELSE table[elapsed + 1]

-----------------------------------------------------------------------------
(* COLOURS (src/src/colors.ts, src/unnamed/part_001)                       *)

\* A string is a sequence of one-character strings.
HEX_VALUE ==
    ("0" :> 0) @@ ("1" :> 1) @@ ("2" :> 2) @@ ("3" :> 3) @@ ("4" :> 4) @@
    ("5" :> 5) @@ ("6" :> 6) @@ ("7" :> 7) @@ ("8" :> 8) @@ ("9" :> 9) @@
    ("a" :> 10) @@ ("b" :> 11) @@ ("c" :> 12) @@ ("d" :> 13) @@ ("e" :> 14) @@
    ("f" :> 15) @@ ("A" :> 10) @@ ("B" :> 11) @@ ("C" :> 12) @@ ("D" :> 13) @@
    ("E" :> 14) @@ ("F" :> 15)

IsHexDigit(c) == c \in DOMAIN HEX_VALUE

\* The number that is not a number: no channel parses to a negative value.
NaN == 0 - 1

\* parseInt(s, 16) of a string of at most two characters, none of them
\* white space, a sign or an "x": the value of the longest prefix of hex
\* digits, NaN when there is none.
ParseInt16(s) ==
    IF Len(s) = 0 \/ ~IsHexDigit(s[1]) THEN NaN
    ELSE IF Len(s) >= 2 /\ IsHexDigit(s[2])
         THEN 16 * HEX_VALUE[s[1]] + HEX_VALUE[s[2]]
    ELSE HEX_VALUE[s[1]]

\* String.prototype.substring(a, b), 0 <= a <= b: the characters a .. b - 1
\* that exist.
Substring(s, a, b) ==
    SubSeq(s, a + 1, IF b < Len(s) THEN b ELSE Len(s))

\* hex.replace("#", ""): the first "#" is removed, wherever it stands.
RemoveFirstHash(s) ==
    LET at == {i \in 1..Len(s) : s[i] = "#"}
    IN  IF at = {} THEN s
        ELSE LET k == CHOOSE i \in at : \A j \in at : i <= j
             IN  SubSeq(s, 1, k - 1) \o SubSeq(s, k + 1, Len(s))

Rgb(r, g, b) == [r |-> r, g |-> g, b |-> b]

\* hexToRgb of colors.ts: no validation of the input.
hexToRgb(hex) ==
    LET cleanHex == RemoveFirstHash(hex)
        fullHex == IF Len(cleanHex) = 3
                   THEN <<cleanHex[1], cleanHex[1], cleanHex[2], cleanHex[2],
                          cleanHex[3], cleanHex[3]>>
                   ELSE cleanHex
    IN  Rgb(ParseInt16(Substring(fullHex, 0, 2)),
            ParseInt16(Substring(fullHex, 2, 4)),
            ParseInt16(Substring(fullHex, 4, 6)))

\* /^#?([a-f\d]{2})([a-f\d]{2})([a-f\d]{2})$/i
HexPatternMatches(hex) ==
    LET digits == IF Len(hex) > 0 /\ hex[1] = "#" THEN Tail(hex) ELSE hex
    IN  Len(digits) = 6 /\ \A i \in 1..6 : IsHexDigit(digits[i])

\* hexToRgb of the colour-transition compositions: white unless the
\* pattern matches.
hexToRgbLocal(hex) ==
    IF ~HexPatternMatches(hex) THEN Rgb(255, 255, 255)
    ELSE LET digits == IF hex[1] = "#" THEN Tail(hex) ELSE hex
         IN  Rgb(ParseInt16(SubSeq(digits, 1, 2)),
                 ParseInt16(SubSeq(digits, 3, 4)),
                 ParseInt16(SubSeq(digits, 5, 6)))

\* Variant of MathRound: the fraction is cut off.
MathRound_Floor(x) == x \div Q

\* Math.round of the fixed-point x: the nearest integer, halves upwards.
MathRound(x) == (2 * x + Q) \div (2 * Q)

RgbString(r, g, b) ==
    "rgb(" \o ToString(r) \o ", " \o ToString(g) \o ", " \o ToString(b) \o ")"

interpolateColor(from, to, progress) ==
    LET fromRgb == hexToRgbLocal(from)
        toRgb == hexToRgbLocal(to)
        r == MathRound(fromRgb.r * Q + (toRgb.r - fromRgb.r) * progress)
        g == MathRound(fromRgb.g * Q + (toRgb.g - fromRgb.g) * progress)
        b == MathRound(fromRgb.b * Q + (toRgb.b - fromRgb.b) * progress)
    IN  RgbString(r, g, b)

\* COLORS: getThemeColor(variable, fallback) yields the fallback where the
\* document has no value for the variable.
COLORS ==
    [white |-> <<"#", "f", "f", "f", "f", "f", "f">>,
     black |-> <<"#", "0", "0", "0", "0", "0", "0">>,
     shadowGrey |-> <<"#", "2", "7", "2", "7", "2", "7">>,
     silver |-> <<"#", "a", "d", "a", "d", "a", "d">>,
     teal |-> <<"#", "0", "0", "8", "2", "8", "2">>,
     blueSlate |-> <<"#", "5", "2", "6", "f", "7", "6">>,
     eggshell |-> <<"#", "e", "e", "e", "8", "d", "5">>,
     ivoryMist |-> <<"#", "f", "d", "f", "6", "e", "3">>,
     darkBg |-> <<"#", "0", "0", "0", "0", "0", "0">>,
     darkBgSecondary |-> <<"#", "2", "7", "2", "7", "2", "7">>,
     darkText |-> <<"#", "f", "f", "f", "f", "f", "f">>,
     darkElement |-> <<"#", "a", "d", "a", "d", "a", "d">>,
     darkHighlight |-> <<"#", "0", "0", "8", "2", "8", "2">>,
     lightBg |-> <<"#", "f", "d", "f", "6", "e", "3">>,
     lightBgSecondary |-> <<"#", "e", "e", "e", "8", "d", "5">>,
     lightText |-> <<"#", "0", "0", "0", "0", "0", "0">>,
     lightElement |-> <<"#", "2", "7", "2", "7", "2", "7">>,
     lightHighlight |-> <<"#", "0", "0", "8", "2", "8", "2">>]

COLOR_RGB ==
    [black |-> hexToRgb(COLORS.black),
     white |-> hexToRgb(COLORS.white),
     shadowGrey |-> hexToRgb(COLORS.shadowGrey),
     silver |-> hexToRgb(COLORS.silver),
     teal |-> hexToRgb(COLORS.teal),
     blueSlate |-> hexToRgb(COLORS.blueSlate),
     eggshell |-> hexToRgb(COLORS.eggshell),
     ivoryMist |-> hexToRgb(COLORS.ivoryMist)]

\* Strings the colour parsers are tried on: every string of at most
\* MaxHexLen characters of HEX_ALPHABET, and the palette.
MaxHexLen == 7
HEX_ALPHABET == {"#", "0", "F", "g"}
HexInputs ==
    UNION {[1..n -> HEX_ALPHABET] : n \in 0..MaxHexLen}
        \cup {COLORS[k] : k \in DOMAIN COLORS}

\* Progress values the blend is tried on: k / ProgressSteps, and 1/2.
ProgressSteps == 4
ProgressInputs ==
    {(k * Q) \div ProgressSteps : k \in 0..ProgressSteps} \cup {Q \div 2}

-----------------------------------------------------------------------------
(* ENTRANCE ANIMATIONS                                                     *)

Anim(y, o) == [yOffset |-> y, opacity |-> o]

\* Variant: the stagger is left out of the appear frame.
getOpeningWordletAppearFrame_NoStagger(wordletIndex) ==
    FIRST_WORD_APPEAR + wordletIndex

getOpeningWordletAppearFrame(wordletIndex) ==
    FIRST_WORD_APPEAR + wordletIndex * WORD_STAGGER

\* Variant: the offset follows the eased progress instead of its complement.
getOpeningLetterAnimation_Away(frame, letterIndex) ==
    LET wordletIndex == getOpeningWordletIndex(letterIndex)
        appearFrame == getOpeningWordletAppearFrame(wordletIndex)
        framesSinceAppear == frame - appearFrame
        progress == Progress(framesSinceAppear, 0, EASE_DURATION, FALSE, TRUE)
        easedProgress == EaseOutCubic(progress)
    IN  IF frame < appearFrame THEN Anim(WORD_START_OFFSET * Q, 0)
        ELSE IF framesSinceAppear >= EASE_DURATION THEN Anim(0, Q)
        ELSE Anim(WORD_START_OFFSET * easedProgress, Q)

getOpeningLetterAnimation(frame, letterIndex) ==
    LET wordletIndex == getOpeningWordletIndex(letterIndex)
        appearFrame == getOpeningWordletAppearFrame(wordletIndex)
        framesSinceAppear == frame - appearFrame
        progress == Progress(framesSinceAppear, 0, EASE_DURATION, FALSE, TRUE)
        easedProgress == EaseOutCubic(progress)
    IN  IF frame < appearFrame THEN Anim(WORD_START_OFFSET * Q, 0)
        ELSE IF framesSinceAppear >= EASE_DURATION THEN Anim(0, Q)
        ELSE Anim(WORD_START_OFFSET * (Q - easedProgress), Q)

getSecondWordletAppearFrame(wordletIndex) ==
    SECOND_TEXT_START + wordletIndex * SECOND_TEXT_STAGGER

\* Variant: the opacity fades in with the eased progress.
getSecondLetterAnimation_Fade(frame, letterIndex) ==
    LET wordletIndex == getSecondWordletIndex(letterIndex)
        appearFrame == getSecondWordletAppearFrame(wordletIndex)
        framesSinceAppear == frame - appearFrame
        progress == Progress(framesSinceAppear, 0, SECOND_TEXT_EASE_DURATION,
                             FALSE, TRUE)
        easedProgress == EaseOutCubic(progress)
    IN  IF frame < appearFrame THEN Anim(WORD_START_OFFSET * Q, 0)
        ELSE IF framesSinceAppear >= SECOND_TEXT_EASE_DURATION THEN Anim(0, Q)
        ELSE Anim(WORD_START_OFFSET * (Q - easedProgress), easedProgress)
getSecondLetterAnimation(frame, letterIndex) ==
    LET wordletIndex == getSecondWordletIndex(letterIndex)
        appearFrame == getSecondWordletAppearFrame(wordletIndex)
        framesSinceAppear == frame - appearFrame
        progress == Progress(framesSinceAppear, 0, SECOND_TEXT_EASE_DURATION,
                             FALSE, TRUE)
        easedProgress == EaseOutCubic(progress)
    IN  IF frame < appearFrame THEN Anim(WORD_START_OFFSET * Q, 0)
        ELSE IF framesSinceAppear >= SECOND_TEXT_EASE_DURATION THEN Anim(0, Q)
        ELSE Anim(WORD_START_OFFSET * (Q - easedProgress), Q)

SymbolLineAppearFrame(lineIndex) ==
    SYMBOL_FRAME_START + lineIndex * SYMBOL_LINE_STAGGER

getSymbolLineAnimation(frame, lineIndex) ==
    LET appearFrame == SymbolLineAppearFrame(lineIndex)
        framesSinceAppear == frame - appearFrame
        easedProgress == BezierWhizz(framesSinceAppear)
    IN  IF frame < appearFrame THEN Anim(SYMBOL_FRAME_START_OFFSET * Q, 0)
        ELSE IF framesSinceAppear >= SYMBOL_FRAME_EASE_DURATION
             THEN Anim(0, Q)
        ELSE Anim(SYMBOL_FRAME_START_OFFSET * (Q - easedProgress), Q)

\* The earlier composition (src/unnamed/part_002): nine wordlets, each
\* animated as a unit, with the same timing constants.
WORDLET_COUNT == 9

getWordletAppearFrame(index) == FIRST_WORD_APPEAR + index * WORD_STAGGER

getWordletAnimation(frame, index) ==
    LET appearFrame == getWordletAppearFrame(index)
        framesSinceAppear == frame - appearFrame
        progress == Progress(framesSinceAppear, 0, EASE_DURATION, FALSE, TRUE)
        easedProgress == EaseOutCubic(progress)
    IN  IF frame < appearFrame THEN Anim(WORD_START_OFFSET * Q, 0)
        ELSE IF framesSinceAppear >= EASE_DURATION THEN Anim(0, Q)
        ELSE Anim(WORD_START_OFFSET * (Q - easedProgress), Q)

-----------------------------------------------------------------------------
(* COMPONENTS                                                              *)

SYMBOL_FRAME ==
    [width |-> 240, height |-> 240, verticalArmLength |-> 60, strokeWidth |-> 5]

GRID ==
    [coarseSpacing |-> 80, fineSpacing |-> 40,
     exclusionWidth |-> SYMBOL_FRAME.width + SYMBOL_FRAME.strokeWidth,
     exclusionHeight |-> SYMBOL_FRAME.height + SYMBOL_FRAME.strokeWidth]

SYMBOL_PINS ==
    [length |-> GRID.fineSpacing * 2, strokeWidth |-> 3,
     left |-> <<0 - 80, 0, 80>>, right |-> <<0 - 80, 0, 80>>]

PIN_NUMBER == [fontSize |-> 18, offsetFromPin |-> 16, appearDelay |-> 8]

\* Variant: the height is taken from the spring without the frame guard.
GrowthHeight_Unguarded(frame, pre) ==
    Lerp(spring(GROWTH_SPRING, frame - FRAME_GROW_START, pre),
         SYMBOL_FRAME.height, FRAME_GROW_TARGET_HEIGHT)

\* The height of the symbol frame: the base height before the growth
\* starts, the spring-driven height from then on.
GrowthHeight(frame, pre) ==
    LET growthSpring == spring(GROWTH_SPRING, frame - FRAME_GROW_START, pre)
    IN  IF frame < FRAME_GROW_START THEN SYMBOL_FRAME.height * Q
        ELSE Lerp(growthSpring, SYMBOL_FRAME.height, FRAME_GROW_TARGET_HEIGHT)

\* Line extension progress: 0 = arm length, 1 = full height.
getLineExtensionProgress(frame) ==
    IF frame < LINE_EXTENSION_START THEN 0
    ELSE IF frame >= LINE_EXTENSION_END THEN Q
    ELSE EaseInOutCubic(Progress(frame, LINE_EXTENSION_START,
                                 LINE_EXTENSION_END, TRUE, TRUE))

\* Variant: the gap is taken from the base height, not the current one.
SymbolFrameGap_Base(height) ==
    (SYMBOL_FRAME.height - 2 * SYMBOL_FRAME.verticalArmLength) * Q

\* The gap between the end of the top arm and the start of the bottom arm.
SymbolFrameGap(height) == height - 2 * SYMBOL_FRAME.verticalArmLength * Q

\* The six lines of the frame as <<x1, y1, x2, y2, animIndex>>, in the
\* order of the lines array; coordinates in fixed point.
SymbolFrameLines(height, extensionProgress) ==
    LET left == 0 - (SYMBOL_FRAME.width * Q) \div 2
        right == (SYMBOL_FRAME.width * Q) \div 2
        top == 0 - height \div 2
        bottom == height \div 2
        arm == SYMBOL_FRAME.verticalArmLength * Q
        extensionAmount == (SymbolFrameGap(height) * extensionProgress) \div Q
    IN  << <<left, bottom - arm, left, bottom, 0>>,
           <<left, bottom, right, bottom, 1>>,
           <<right, bottom - arm - extensionAmount, right, bottom, 2>>,
           <<left, top, left, top + arm + extensionAmount, 3>>,
           <<left, top, right, top, 4>>,
           <<right, top, right, top + arm, 5>> >>

SymbolFrame(frame, pre) ==
    [height |-> GrowthHeight(frame, pre),
     lineAnims |-> [i \in 0..5 |-> getSymbolLineAnimation(frame, i)],
     extensionProgress |-> getLineExtensionProgress(frame),
     lines |-> SymbolFrameLines(GrowthHeight(frame, pre),
                                getLineExtensionProgress(frame)),
     useSegmentLines |-> frame < SYMBOL_FRAME_DONE]

DiagonalGrid(frame, pre) ==
    LET growthSpring ==
            spring(GRID_GROWTH_SPRING, frame - FRAME_GROW_START, pre)
        baseExclusionHeight == SYMBOL_FRAME.height + SYMBOL_FRAME.strokeWidth
        targetExclusionHeight ==
            FRAME_GROW_TARGET_HEIGHT + SYMBOL_FRAME.strokeWidth
        exclusionHeight ==
            IF frame < FRAME_GROW_START THEN baseExclusionHeight * Q
            ELSE Lerp(growthSpring, baseExclusionHeight, targetExclusionHeight)
        appearProgress ==
            Progress(frame, GRID_APPEAR_START,
                     GRID_APPEAR_START + GRID_APPEAR_DURATION, TRUE, TRUE)
        colorProgress == appearProgress
        r == MathRound(Lerp(colorProgress, COLOR_RGB.black.r,
                            COLOR_RGB.shadowGrey.r))
        g == MathRound(Lerp(colorProgress, COLOR_RGB.black.g,
                            COLOR_RGB.shadowGrey.g))
        b == MathRound(Lerp(colorProgress, COLOR_RGB.black.b,
                            COLOR_RGB.shadowGrey.b))
    IN  [rendered |-> appearProgress > 0,
         appearProgress |-> appearProgress,
         exclusionHeight |-> exclusionHeight,
         gridRgb |-> Rgb(r, g, b),
         gridColor |-> RgbString(r, g, b)]

\* The line of one pin before its rotation about the pivot (the line as
\* drawn once the pin has swung out to rotation 0), in fixed point.
SymbolPinLine(index) ==
    LET nLeft == Len(SYMBOL_PINS.left)
        side == IF index < nLeft THEN "left" ELSE "right"
        yOffset == IF index < nLeft THEN SYMBOL_PINS.left[index + 1]
                   ELSE SYMBOL_PINS.right[index - nLeft + 1]
        leftEdge == 0 - SYMBOL_FRAME.width \div 2
        rightEdge == SYMBOL_FRAME.width \div 2
        pivotX == IF side = "left" THEN leftEdge ELSE rightEdge
        endX == IF side = "left" THEN pivotX - SYMBOL_PINS.length
                ELSE pivotX + SYMBOL_PINS.length
    IN  [x1 |-> pivotX * Q, y1 |-> yOffset * Q,
         x2 |-> endX * Q, y2 |-> yOffset * Q]
\* One pin of SymbolPins: indices 0-2 are the left pins, 3-5 the right.
SymbolPin(frame, index, pre) ==
    LET side == IF index < Len(SYMBOL_PINS.left) THEN "left" ELSE "right"
        pinStartFrame == PINS_SWING_START + index * PINS_SWING_STAGGER
        swingSpring == spring(SWING_SPRING, frame - pinStartFrame, pre)
        swingProgress == IF frame < pinStartFrame THEN 0 ELSE swingSpring
        startAngle == IF side = "left" THEN 0 - 90 ELSE 90
        rotation == Lerp(swingProgress, startAngle, 0)
        numberStartFrame == pinStartFrame + PIN_NUMBER.appearDelay
        numberSpring == spring(NUMBER_SPRING, frame - numberStartFrame, pre)
        numberScale == IF frame < numberStartFrame THEN 0 ELSE numberSpring
    IN  IF frame < pinStartFrame \/ index = 5
        THEN [rendered |-> FALSE, side |-> side, rotation |-> rotation]
        ELSE [rendered |-> TRUE, side |-> side, rotation |-> rotation,
              numberScale |-> numberScale]

SymbolPins(frame, pre) ==
    [index \in 0..(Len(SYMBOL_PINS.left) + Len(SYMBOL_PINS.right) - 1) |->
        SymbolPin(frame, index, pre)]

\* Easing.out(Easing.quad): 1 - (1 - t)^2, on fixed point.
EaseOutQuad(t) == Q - ((Q - t) * (Q - t)) \div Q

CURSOR_START_POS == [x |-> 350, y |-> 300]

\* Variant: the cursor stops at the edge of the frame, not at the pin's tip.
MouseCursorTarget_Edge == [x |-> SYMBOL_FRAME.width \div 2, y |-> 80]

\* Where the cursor tip ends: the tip of the bottom-right pin.
MouseCursorTarget ==
    [x |-> SYMBOL_FRAME.width \div 2 + SYMBOL_PINS.length, y |-> 80]

\* MouseCursorWithPin: nothing before CURSOR_DRAG_START; from then on the
\* cursor and the dragged pin, a horizontal line that ends at the cursor
\* tip, and the sparks from CLICK_SPARK_START on.
MouseCursorWithPin(frame) ==
    LET dragProgress ==
            Progress(frame, CURSOR_DRAG_START,
                     CURSOR_DRAG_START + CURSOR_DRAG_DURATION, TRUE, TRUE)
        easedDrag == EaseOutQuad(dragProgress)
        cursorX == Lerp(easedDrag, CURSOR_START_POS.x, MouseCursorTarget.x)
        cursorY == Lerp(easedDrag, CURSOR_START_POS.y, MouseCursorTarget.y)
    IN  IF frame < CURSOR_DRAG_START
        THEN [rendered |-> FALSE]
        ELSE [rendered |-> TRUE,
              cursorX |-> cursorX,
              cursorY |-> cursorY,
              pin |-> [x1 |-> cursorX - SYMBOL_PINS.length * Q,
                       y1 |-> cursorY,
                       x2 |-> cursorX,
                       y2 |-> cursorY],
              showSparks |-> frame >= CLICK_SPARK_START]
\* The colour progress of MyComposition: 0 before the trigger, the spring
\* from then on.
ColorProgress(frame, start, pre) ==
    LET colorSpring == spring(COLOR_SPRING, frame - start, pre)
    IN  IF frame < start THEN 0 ELSE colorSpring

\* Math.round(interpolate(progress, [0, 1], [from, to])) per channel.
BlendRgb(progress, from, to) ==
    Rgb(MathRound(Lerp(progress, from.r, to.r)),
        MathRound(Lerp(progress, from.g, to.g)),
        MathRound(Lerp(progress, from.b, to.b)))

\* MyComposition up to the background colour: everything the component
\* computes before it reads COLOR_RGB.darkBg.
MyCompositionHead(frame, pre) ==
    LET fillProgress == ColorProgress(frame, FILL_COLOR_TRANSITION_START, pre)
        fill == BlendRgb(fillProgress, COLOR_RGB.black, COLOR_RGB.ivoryMist)
        strokeProgress ==
            ColorProgress(frame, STROKE_COLOR_TRANSITION_START, pre)
        stroke == BlendRgb(strokeProgress, COLOR_RGB.silver,
                           COLOR_RGB.blueSlate)
        zoomProgress ==
            Progress(frame, ZOOM_START, ZOOM_START + ZOOM_DURATION, TRUE, TRUE)
        easedZoom == EaseInOutCubic(zoomProgress)
    IN  [textVisible |-> frame < OPENING_TEXT_DISAPPEAR_START,
         fillProgress |-> fillProgress,
         fillRgb |-> fill,
         symbolFillColor |-> RgbString(fill.r, fill.g, fill.b),
         strokeProgress |-> strokeProgress,
         strokeRgb |-> stroke,
         symbolStrokeColor |-> RgbString(stroke.r, stroke.g, stroke.b),
         frameHeight |-> GrowthHeight(frame, pre),
         easedZoom |-> easedZoom,
         zoomScale |-> Lerp(easedZoom, 1, ZOOM_SCALE),
         browserZoomProgress |->
             Progress(frame, BROWSER_ZOOM_START,
                      BROWSER_ZOOM_START + BROWSER_ZOOM_DURATION, TRUE, TRUE)]

\* interpolate(p, [0, 1], [a, b]) where a is itself a fixed-point value.
LerpFrom(p, a, b) == a + ((b * Q - a) * p) \div Q

\* The rest of MyComposition, given the colour table it reads.
MyCompositionTail(frame, head, rgb) ==
    LET phase1R == Lerp(head.easedZoom, rgb.darkBg.r, rgb.ivoryMist.r)
        phase1G == Lerp(head.easedZoom, rgb.darkBg.g, rgb.ivoryMist.g)
        phase1B == Lerp(head.easedZoom, rgb.darkBg.b, rgb.ivoryMist.b)
        bgR == MathRound(LerpFrom(head.browserZoomProgress, phase1R,
                                  rgb.shadowGrey.r))
        bgG == MathRound(LerpFrom(head.browserZoomProgress, phase1G,
                                  rgb.shadowGrey.g))
        bgB == MathRound(LerpFrom(head.browserZoomProgress, phase1B,
                                  rgb.shadowGrey.b))
    IN  [backgroundRgb |-> Rgb(bgR, bgG, bgB),
         backgroundColor |-> RgbString(bgR, bgG, bgB),
         showGrid |-> frame < ZOOM_START,
         showSecondText |-> frame >= SECOND_TEXT_START /\ frame < ZOOM_START,
         showSymbolFrame |-> frame < LOGO_ZOOM_START]

\* MyComposition: COLOR_RGB has no entry darkBg, COLOR_RGB.darkBg is
\* undefined and reading its r throws a TypeError; nothing is returned.
MyComposition(frame, pre) ==
    LET head == MyCompositionHead(frame, pre)
    IN  IF "darkBg" \in DOMAIN COLOR_RGB
        THEN [threw |-> FALSE, head |-> head,
              tail |-> MyCompositionTail(frame, head, COLOR_RGB)]
        ELSE [threw |-> TRUE, head |-> head]

-----------------------------------------------------------------------------
(* SYMBOL GENERATION FLOW (src/remotion-tunnel.sh, second composition)     *)

\* Frames explored for the flow: -NegFrames .. MaxFlowFrame.
MaxFlowFrame == 375
FlowFrames == (0 - NegFrames)..MaxFlowFrame

\* The timing constants of this composition are those of the main one up
\* to ZOOM_START; the zoom and the logo zoom are shorter.
FLOW_ZOOM_DURATION == 10
FLOW_LOGO_ZOOM_START == ZOOM_START + FLOW_ZOOM_DURATION + LOGO_ZOOM_DELAY
FLOW_LOGO_ZOOM_DURATION == 15
FLOW_BROWSER_ZOOM_START == FLOW_LOGO_ZOOM_START + FLOW_LOGO_ZOOM_DURATION

FLOW_START_DELAY == 25
FLOW_START ==
    FLOW_BROWSER_ZOOM_START + BROWSER_ZOOM_DURATION + FLOW_START_DELAY

PART_NUMBER_LENGTH == 11
\* 0.5 characters per frame
TYPING_SPEED == Q \div 2
\* Variant: one frame per character, whatever the typing speed.
TYPING_DURATION_Short == PART_NUMBER_LENGTH
\* Math.ceil(PART_NUMBER.length / TYPING_SPEED)
TYPING_DURATION ==
    (PART_NUMBER_LENGTH * Q + TYPING_SPEED - 1) \div TYPING_SPEED
TYPING_START == FLOW_START
TYPING_END == TYPING_START + TYPING_DURATION

RUN_BUTTON_VISIBLE_DURATION == 12
SEARCH_EXIT_START == TYPING_END + RUN_BUTTON_VISIBLE_DURATION

GENERATING_START == SEARCH_EXIT_START
GENERATING_DURATION == 90
GENERATING_END == GENERATING_START + GENERATING_DURATION

COMPLETE_APPEAR_DELAY == 12
COMPLETE_START == GENERATING_END + COMPLETE_APPEAR_DELAY

SUBTITLE_PHASE_2_START == GENERATING_START
\* Variant: the third subtitle starts before the second has faded in.
SUBTITLE_PHASE_3_START_Early == GENERATING_START + 5
SUBTITLE_PHASE_3_START == COMPLETE_START
SUBTITLE_TRANSITION_DURATION == 10

\* The opacities of the three subtitle spans at a frame.
SubtitleOpacities(frame) ==
    LET fade2 == Progress(frame, SUBTITLE_PHASE_2_START,
                          SUBTITLE_PHASE_2_START
                              + SUBTITLE_TRANSITION_DURATION, TRUE, TRUE)
        fade3 == Progress(frame, SUBTITLE_PHASE_3_START,
                          SUBTITLE_PHASE_3_START
                              + SUBTITLE_TRANSITION_DURATION, TRUE, TRUE)
    IN  << IF frame < SUBTITLE_PHASE_2_START THEN Q
           ELSE Lerp(fade2, 1, 0),
           IF frame < SUBTITLE_PHASE_2_START THEN 0
           ELSE IF frame < SUBTITLE_PHASE_3_START THEN Lerp(fade2, 0, 1)
           ELSE Lerp(fade3, 1, 0),
           IF frame < SUBTITLE_PHASE_3_START THEN 0
           ELSE Lerp(fade3, 0, 1) >>

PART_NUMBER == <<"A", "S", "3", "9", "3", "3", "-", "B", "Q", "F", "T">>

\* s.slice(0, end): a negative end counts from the end of the string.
SliceFromStart(s, end) ==
    LET e == IF end < 0 THEN (IF Len(s) + end < 0 THEN 0 ELSE Len(s) + end)
             ELSE IF end > Len(s) THEN Len(s) ELSE end
    IN  SubSeq(s, 1, e)

\* The search bar of BrowserWindow: the placeholder and the hint before
\* TYPING_START, the typed part number from then on with a caret while
\* typing, and the run button from TYPING_END on.
SearchBar(frame) ==
    LET typedLength == ((frame - TYPING_START) * TYPING_SPEED) \div Q
        shown == IF PART_NUMBER_LENGTH < typedLength
                 THEN PART_NUMBER_LENGTH ELSE typedLength
    IN  [placeholder |-> frame < TYPING_START,
         typed |-> IF frame < TYPING_START THEN << >>
                   ELSE SliceFromStart(PART_NUMBER, shown),
         caret |-> frame >= TYPING_START /\ frame < TYPING_END,
         runButton |-> frame >= TYPING_END,
         runOpacity |-> Progress(frame, TYPING_END, TYPING_END + 8,
                                 TRUE, TRUE),
         hint |-> frame < TYPING_START]

-----------------------------------------------------------------------------
(* TEXT SUCK-IN (src/remotion-tunnel.sh first composition,                 *)
(* src/unnamed/part_000 second composition)                                *)

SUCK_IN_DELAY == 2
SUCK_IN_START == SYMBOL_FRAME_DONE + SUCK_IN_DELAY
SUCK_IN_DURATION == 12
SUCK_IN_END == SUCK_IN_START + SUCK_IN_DURATION

LEFT_WORDLETS == {0, 1, 2, 3}

\* wordlet index |-> <<xOffset, yOffset>> where the wordlet ends up
SUCK_IN_TARGETS ==
    [i \in 0..8 |->
        CASE i = 0 -> <<120, 0 - 80>>
          [] i = 1 -> <<80, 0 - 80>>
          [] i = 2 -> <<0, 0 - 100>>
          [] i = 3 -> <<0 - 60, 0 - 80>>
          [] i = 4 -> <<60, 80>>
          [] i = 5 -> <<0 - 40, 100>>
          [] i = 6 -> <<0 - 80, 100>>
          [] i = 7 -> <<0 - 100, 100>>
          [] i = 8 -> <<0 - 120, 80>>]

\* Easing.in(Easing.quad): t^2, on fixed point.
EaseInQuad(t) == (t * t) \div Q

SuckIn(x, y, o, s) == [xOffset |-> x, yOffset |-> y, opacity |-> o, scale |-> s]

\* Variant: the wordlet fades back in over the window.
getTextSuckInAnimation_FadeIn(frame, wordletIndex) ==
    IF frame < SUCK_IN_START THEN SuckIn(0, 0, Q, Q)
    ELSE IF frame >= SUCK_IN_END THEN SuckIn(0, 0, 0, 0)
    ELSE LET easedProgress ==
               Cubic(Progress(frame, SUCK_IN_START, SUCK_IN_END, TRUE, TRUE))
         IN  SuckIn(0, 0, Q - Cubic(Q - easedProgress), Q)

\* getTextSuckInAnimation of the left/right composition: every wordlet
\* moves sideways into the symbol frame (no vertical offset).
getTextSuckInAnimation(frame, wordletIndex) ==
    IF frame < SUCK_IN_START THEN SuckIn(0, 0, Q, Q)
    ELSE IF frame >= SUCK_IN_END THEN SuckIn(0, 0, 0, 0)
    ELSE LET progress ==
               Progress(frame, SUCK_IN_START, SUCK_IN_END, TRUE, TRUE)
             easedProgress == Cubic(progress)
             targetX == IF wordletIndex \in LEFT_WORDLETS
                        THEN 0 - (SYMBOL_FRAME.width \div 2) - 50
                        ELSE (SYMBOL_FRAME.width \div 2) + 50
         IN  SuckIn(targetX * easedProgress, 0, Q - easedProgress,
                    Q - (easedProgress * 5) \div 10)

\* getTextSuckInAnimation of the composition with a target per wordlet.
getTextSuckInAnimationTargets(frame, wordletIndex) ==
    IF frame < SUCK_IN_START THEN SuckIn(0, 0, Q, Q)
    ELSE IF frame >= SUCK_IN_END THEN SuckIn(0, 0, 0, 0)
    ELSE LET progress ==
               Progress(frame, SUCK_IN_START, SUCK_IN_END, TRUE, TRUE)
             easedProgress == EaseInQuad(progress)
             target == IF wordletIndex \in DOMAIN SUCK_IN_TARGETS
                       THEN SUCK_IN_TARGETS[wordletIndex] ELSE <<0, 0>>
         IN  SuckIn(target[1] * easedProgress, target[2] * easedProgress,
                    Q - easedProgress, Q - (easedProgress * 6) \div 10)

SUCK_IN_VARIANTS == {"sides", "targets"}

TextSuckIn(variant, frame, wordletIndex) ==
    IF variant = "sides" THEN getTextSuckInAnimation(frame, wordletIndex)
    ELSE getTextSuckInAnimationTargets(frame, wordletIndex)

\* What the composition computes for the opening text at a frame.
SuckInText(variant, frame, wordletIndex) ==
    [textVisible |-> frame < SUCK_IN_END,
     anim |-> TextSuckIn(variant, frame, wordletIndex)]

-----------------------------------------------------------------------------
(* GRID LINE / SYMBOL FRAME INTERSECTION (src/src/Composition.tsx)         *)

\* Inputs explored: line positions k * fineSpacing for |k| <= MaxLineStep,
\* the angles below, the frame before and after its growth.
MaxLineStep == 6
LinePositions == {k * GRID.fineSpacing : k \in (0 - MaxLineStep)..MaxLineStep}
LINE_ANGLES == {0, 30, 60, 90, 120, 150, 180}
FrameHalfHeights == {SYMBOL_FRAME.height \div 2, FRAME_GROW_TARGET_HEIGHT \div 2}

\* Math.cos and Math.sin of an angle in degrees, to the nearest 1/Q.
MathCos(angleDeg) ==
    CASE angleDeg = 0 -> Q
      [] angleDeg = 30 -> 866
      [] angleDeg = 60 -> 500
      [] angleDeg = 90 -> 0
      [] angleDeg = 120 -> 0 - 500
      [] angleDeg = 150 -> 0 - 866
      [] angleDeg = 180 -> 0 - Q

MathSin(angleDeg) ==
    CASE angleDeg = 0 -> 0
      [] angleDeg = 30 -> 500
      [] angleDeg = 60 -> 866
      [] angleDeg = 90 -> Q
      [] angleDeg = 120 -> 866
      [] angleDeg = 150 -> 500
      [] angleDeg = 180 -> 0

\* The sign of Math.cos as a comparison with 0 sees it: in double
\* precision Math.cos(Math.PI / 2) is 6.1e-17, a positive number.
CosSign(angleDeg) == IF angleDeg <= 90 THEN 1 ELSE 0 - 1

\* n / d of two fixed-point numbers.  A zero (in double precision: zero or
\* of magnitude 1e-16) divisor gives 0 for a zero dividend that is exact,
\* and otherwise a quotient that is infinite, NaN or of magnitude 1e18:
\* not a length on the canvas, recorded as not finite.
JsDivide(n, d) ==
    IF d = 0 THEN [finite |-> FALSE, v |-> 0]
    ELSE [finite |-> TRUE, v |-> (n * Q) \div d]

\* x * f + c for a quotient x.
JsAffine(x, f, c) ==
    IF x.finite THEN [finite |-> TRUE, v |-> (x.v * f) \div Q + c]
    ELSE [finite |-> FALSE, v |-> 0]

\* Math.abs
Abs(x) == IF x < 0 THEN 0 - x ELSE x

\* Math.abs(y) <= bound; false for an infinite or NaN y.
JsAbsAtMost(y, bound) == y.finite /\ Abs(y.v) <= bound

\* x > 0; the infinite quotients are never valid, so their sign is not
\* needed.
JsPositive(x) == x.finite /\ x.v > 0

SetMin(S) == CHOOSE m \in S : \A x \in S : m <= x

\* Where a grid line leaves the symbol frame, along the line; fixed point.
getLineFrameIntersection(lineYPos, angleDeg, frameHalfW, frameHalfH) ==
    LET cosA == MathCos(angleDeg)
        sinA == MathSin(angleDeg)
        xRight == JsDivide(frameHalfW * Q + lineYPos * sinA, cosA)
        yAtRight == JsAffine(xRight, sinA, lineYPos * cosA)
        rightValid == JsAbsAtMost(yAtRight, frameHalfH * Q)
        yEdge == IF lineYPos * CosSign(angleDeg) > 0 THEN frameHalfH
                 ELSE 0 - frameHalfH
        xTopBot == JsDivide(yEdge * Q - lineYPos * cosA, sinA)
        xAtTopBot == JsAffine(xTopBot, cosA, 0 - lineYPos * sinA)
        topBotValid == JsAbsAtMost(xAtTopBot, frameHalfW * Q)
        candidates ==
            (IF rightValid /\ JsPositive(xRight) THEN {xRight} ELSE {})
            \cup (IF topBotValid /\ JsPositive(xTopBot) THEN {xTopBot}
                  ELSE {})
    IN  IF candidates # {}
        THEN [finite |-> \A c \in candidates : c.finite,
              v |-> SetMin({c.v : c \in candidates}) + 2 * Q]
        ELSE [finite |-> TRUE, v |-> 150 * Q]

-----------------------------------------------------------------------------
(* OPENING TEXT (src/src/Composition.tsx, MyComposition)                   *)

\* The opening text container is rendered while textVisible.
OpeningTextVisible(frame) == frame < OPENING_TEXT_DISAPPEAR_START

\* What the composition shows of one opening letter at a frame: nothing
\* when the container is not rendered, the letter with its entrance
\* animation otherwise.
OpeningLetter(frame, index) ==
    [rendered |-> OpeningTextVisible(frame),
     enterAnim |-> getOpeningLetterAnimation(frame, index)]

-----------------------------------------------------------------------------
(* STAGE ELEMENTS (src/src/Composition.tsx)                                *)

\* Variant: the logo stays once the browser window has appeared.
StandaloneLogoRendered_Stays(frame) == ~(frame < LOGO_ZOOM_START)

\* StandaloneLogo returns null before its zoom starts and from the start of
\* the browser zoom on.
StandaloneLogoRendered(frame) ==
    ~(frame < LOGO_ZOOM_START \/ frame >= BROWSER_ZOOM_START)

\* BrowserWindow returns null before the browser zoom starts.
BrowserWindowRendered(frame) == ~(frame < BROWSER_ZOOM_START)

\* The three elements that take the centre of the stage in turn: the
\* zoomable container of the symbol frame (showSymbolFrame), the standalone
\* logo and the browser window.
StageElements(frame) ==
    [symbolFrameContainer |-> frame < LOGO_ZOOM_START,
     standaloneLogo |-> StandaloneLogoRendered(frame),
     browserWindow |-> BrowserWindowRendered(frame)]

-----------------------------------------------------------------------------
(* EVALUATIONS                                                             *)

\* The renderer asks for one evaluation at a time and takes its result
\* before it asks for the next one.
NoEval == [op |-> "none"]
Ready == Loaded /\ last = NoEval

TakeResult ==
    /\ last # NoEval
    /\ last' = NoEval
    /\ UNCHANGED <<pc, env, loadError>>

EvalOpeningLetter ==
    /\ Ready
    /\ \E f \in Frames, i \in 0..(OPENING_TEXT_LENGTH - 1) :
         last' = [op |-> "getOpeningLetterAnimation", frame |-> f, index |-> i,
                  anim |-> getOpeningLetterAnimation(f, i)]
    /\ UNCHANGED <<pc, env, loadError>>

EvalSecondLetter ==
    /\ Ready
    /\ \E f \in Frames, i \in 0..(SECOND_TEXT_LENGTH - 1) :
         last' = [op |-> "getSecondLetterAnimation", frame |-> f, index |-> i,
                  anim |-> getSecondLetterAnimation(f, i)]
    /\ UNCHANGED <<pc, env, loadError>>

EvalSymbolLine ==
    /\ Ready
    /\ \E f \in Frames, i \in 0..5 :
         last' = [op |-> "getSymbolLineAnimation", frame |-> f, index |-> i,
                  anim |-> getSymbolLineAnimation(f, i)]
    /\ UNCHANGED <<pc, env, loadError>>

EvalWordlet ==
    /\ Ready
    /\ \E f \in Frames, i \in 0..(WORDLET_COUNT - 1) :
         last' = [op |-> "getWordletAnimation", frame |-> f, index |-> i,
                  anim |-> getWordletAnimation(f, i)]
    /\ UNCHANGED <<pc, env, loadError>>

EvalHexToRgb ==
    /\ Ready
    /\ \E hex \in HexInputs :
         last' = [op |-> "hexToRgb", file |-> "colors.ts", hex |-> hex,
                  rgb |-> hexToRgb(hex)]
    /\ UNCHANGED <<pc, env, loadError>>

EvalHexToRgbLocal ==
    /\ Ready
    /\ \E hex \in HexInputs :
         last' = [op |-> "hexToRgb", file |-> "local", hex |-> hex,
                  rgb |-> hexToRgbLocal(hex)]
    /\ UNCHANGED <<pc, env, loadError>>

EvalInterpolateColor ==
    /\ Ready
    /\ \E from \in {COLORS[k] : k \in DOMAIN COLORS},
          to \in {COLORS[k] : k \in DOMAIN COLORS},
          progress \in ProgressInputs :
         last' = [op |-> "interpolateColor", from |-> from, to |-> to,
                  progress |-> progress,
                  color |-> interpolateColor(from, to, progress)]
    /\ UNCHANGED <<pc, env, loadError>>

EvalSymbolFrame ==
    /\ Ready
    /\ \E f \in Frames, pre \in SPRING_PRE_TRIGGER :
         last' = [op |-> "SymbolFrame", frame |-> f, pre |-> pre,
                  out |-> SymbolFrame(f, pre)]
    /\ UNCHANGED <<pc, env, loadError>>

EvalDiagonalGrid ==
    /\ Ready
    /\ \E f \in Frames, pre \in SPRING_PRE_TRIGGER :
         last' = [op |-> "DiagonalGrid", frame |-> f, pre |-> pre,
                  out |-> DiagonalGrid(f, pre)]
    /\ UNCHANGED <<pc, env, loadError>>

EvalSymbolPins ==
    /\ Ready
    /\ \E f \in Frames, pre \in SPRING_PRE_TRIGGER :
         last' = [op |-> "SymbolPins", frame |-> f, pre |-> pre,
                  pins |-> SymbolPins(f, pre)]
    /\ UNCHANGED <<pc, env, loadError>>

EvalMouseCursorWithPin ==
    /\ Ready
    /\ \E f \in Frames :
         last' = [op |-> "MouseCursorWithPin", frame |-> f,
                  out |-> MouseCursorWithPin(f)]
    /\ UNCHANGED <<pc, env, loadError>>
EvalSearchBar ==
    /\ Ready
    /\ \E f \in FlowFrames :
         last' = [op |-> "SearchBar", frame |-> f, out |-> SearchBar(f)]
    /\ UNCHANGED <<pc, env, loadError>>
EvalSubtitles ==
    /\ Ready
    /\ \E f \in FlowFrames :
         last' = [op |-> "Subtitles", frame |-> f,
                  opacity |-> SubtitleOpacities(f)]
    /\ UNCHANGED <<pc, env, loadError>>
EvalTextSuckIn ==
    /\ Ready
    /\ \E v \in SUCK_IN_VARIANTS, f \in Frames, i \in 0..(WORDLET_COUNT - 1) :
         last' = [op |-> "TextSuckIn", variant |-> v, frame |-> f,
                  index |-> i, out |-> SuckInText(v, f, i)]
    /\ UNCHANGED <<pc, env, loadError>>
EvalLineFrameIntersection ==
    /\ Ready
    /\ \E y \in LinePositions, a \in LINE_ANGLES, h \in FrameHalfHeights :
         last' = [op |-> "getLineFrameIntersection", lineYPos |-> y,
                  angleDeg |-> a, frameHalfW |-> SYMBOL_FRAME.width \div 2,
                  frameHalfH |-> h,
                  out |-> getLineFrameIntersection(
                              y, a, SYMBOL_FRAME.width \div 2, h)]
    /\ UNCHANGED <<pc, env, loadError>>
EvalStageElements ==
    /\ Ready
    /\ \E f \in Frames :
         last' = [op |-> "StageElements", frame |-> f,
                  stage |-> StageElements(f)]
    /\ UNCHANGED <<pc, env, loadError>>
EvalMyComposition ==
    /\ Ready
    /\ \E f \in Frames, pre \in SPRING_PRE_TRIGGER :
         last' = [op |-> "MyComposition", frame |-> f, pre |-> pre,
                  out |-> MyComposition(f, pre)]
    /\ UNCHANGED <<pc, env, loadError>>

-----------------------------------------------------------------------------

Init ==
    /\ pc = 0
    /\ env = << >>
    /\ loadError = FALSE
    /\ last = NoEval

Next ==
    \/ LoadDeclaration
    \/ TakeResult
    \/ EvalOpeningLetter
    \/ EvalSecondLetter
    \/ EvalSymbolLine
    \/ EvalWordlet
    \/ EvalHexToRgb
    \/ EvalHexToRgbLocal
    \/ EvalInterpolateColor
    \/ EvalSymbolFrame
    \/ EvalDiagonalGrid
    \/ EvalSymbolPins
    \/ EvalMyComposition
    \/ EvalSubtitles
    \/ EvalTextSuckIn
    \/ EvalLineFrameIntersection
    \/ EvalStageElements
    \/ EvalMouseCursorWithPin
    \/ EvalSearchBar

Spec == Init /\ [][Next]_vars

TypeOK ==
    /\ pc \in 0..Len(TIMING_DECLS)
    /\ loadError \in BOOLEAN
    /\ DOMAIN env = {TIMING_DECLS[k].name : k \in 1..pc}

-----------------------------------------------------------------------------
(* PROPERTIES                                                              *)


ENTRANCE_OPS == {"getOpeningLetterAnimation", "getSecondLetterAnimation",
                 "getSymbolLineAnimation", "getWordletAnimation"}

\* Entry frame, stagger, ease duration and start offset of each entrance
\* family, and the element index that selects the window.
EntranceEntry(op) ==
    CASE op = "getOpeningLetterAnimation" -> FIRST_WORD_APPEAR
      [] op = "getSecondLetterAnimation" -> SECOND_TEXT_START
      [] op = "getSymbolLineAnimation" -> SYMBOL_FRAME_START
      [] op = "getWordletAnimation" -> FIRST_WORD_APPEAR

EntranceStagger(op) ==
    CASE op = "getOpeningLetterAnimation" -> WORD_STAGGER
      [] op = "getSecondLetterAnimation" -> SECOND_TEXT_STAGGER
      [] op = "getSymbolLineAnimation" -> SYMBOL_LINE_STAGGER
      [] op = "getWordletAnimation" -> WORD_STAGGER

EntranceEase(op) ==
    CASE op = "getOpeningLetterAnimation" -> EASE_DURATION
      [] op = "getSecondLetterAnimation" -> SECOND_TEXT_EASE_DURATION
      [] op = "getSymbolLineAnimation" -> SYMBOL_FRAME_EASE_DURATION
      [] op = "getWordletAnimation" -> EASE_DURATION

EntranceRestOffset(op) ==
    IF op = "getSymbolLineAnimation" THEN SYMBOL_FRAME_START_OFFSET
    ELSE WORD_START_OFFSET

EntranceElement(op, index) ==
    CASE op = "getOpeningLetterAnimation" -> getOpeningWordletIndex(index)
      [] op = "getSecondLetterAnimation" -> getSecondWordletIndex(index)
      [] OTHER -> index

WindowStart(op, index) ==
    EntranceEntry(op) + EntranceElement(op, index) * EntranceStagger(op)

WindowEnd(op, index) == WindowStart(op, index) + EntranceEase(op)

EntranceAt(op, f, index) ==
    CASE op = "getOpeningLetterAnimation" -> getOpeningLetterAnimation(f, index)
      [] op = "getSecondLetterAnimation" -> getSecondLetterAnimation(f, index)
      [] op = "getSymbolLineAnimation" -> getSymbolLineAnimation(f, index)
      [] op = "getWordletAnimation" -> getWordletAnimation(f, index)

\* C1: every entrance animation of element i has the window [s, e) with
\* s = entry + i * stagger and e = s + easeDuration; before s the element is
\* exactly at rest (start offset, opacity 0) and from e on exactly settled
\* (offset 0, opacity 1).  Opening wordlet 0 has the window [10, 15):
\* opacity 0 at frame 9, opacity 1 and offset 0 at frame 15.
C1_BoundaryClamping ==
    last.op \in ENTRANCE_OPS =>
        LET s == WindowStart(last.op, last.index)
            e == WindowEnd(last.op, last.index)
        IN  /\ last.frame < s =>
                last.anim = Anim(EntranceRestOffset(last.op) * Q, 0)
            /\ last.frame >= e => last.anim = Anim(0, Q)
            /\ (last.op = "getOpeningLetterAnimation" /\ last.index = 0) =>
                /\ s = 10 /\ e = 15
                /\ last.frame = 9 => last.anim.opacity = 0
                /\ last.frame = 15 => last.anim = Anim(0, Q)

C1_Witness ==
    /\ last.op = "getOpeningLetterAnimation"
    /\ last.index = 0
    /\ last.frame = 15
    /\ last.anim = Anim(0, Q)

\* C2: inside the window [s, s + d] of an entrance animation the opacity
\* never decreases and the distance to the final position never increases
\* as the frame grows.
C2_EntranceMonotone ==
    last.op \in ENTRANCE_OPS =>
        LET s == WindowStart(last.op, last.index)
            e == WindowEnd(last.op, last.index)
        IN  (s <= last.frame /\ last.frame <= e) =>
                \A f1 \in s..(last.frame - 1) :
                    LET a1 == EntranceAt(last.op, f1, last.index)
                    IN  /\ a1.opacity <= last.anim.opacity
                        /\ Abs(a1.yOffset) >= Abs(last.anim.yOffset)

C2_Witness ==
    /\ last.op = "getOpeningLetterAnimation"
    /\ last.frame = WindowStart(last.op, last.index) + 2
    /\ last.anim.yOffset > 0
    /\ last.anim.yOffset <
           getOpeningLetterAnimation(last.frame - 1, last.index).yOffset

\* The colours read from COLOR_RGB by MyComposition and DiagonalGrid.
COLOURS_READ ==
    {"black", "ivoryMist", "silver", "blueSlate", "shadowGrey", "darkBg"}

\* C3: MyComposition evaluated at any integer frame raises no exception,
\* and every colour it reads from COLOR_RGB has three defined channels.
C3_TotalOverFrames ==
    last.op = "MyComposition" =>
        /\ ~last.out.threw
        /\ \A c \in COLOURS_READ :
              /\ c \in DOMAIN COLOR_RGB
              /\ COLOR_RGB[c].r # NaN
              /\ COLOR_RGB[c].g # NaN
              /\ COLOR_RGB[c].b # NaN

Between(x, a, b) == (a <= x /\ x <= b) \/ (b <= x /\ x <= a)

\* Every channel of c lies between the channels of from and to, in 0..255.
InGradient(c, from, to) ==
    /\ Between(c.r, from.r, to.r) /\ c.r \in 0..255
    /\ Between(c.g, from.g, to.g) /\ c.g \in 0..255
    /\ Between(c.b, from.b, to.b) /\ c.b \in 0..255

\* C5: every colour the composition computes (fill, stroke, grid and,
\* where it is produced, background) has each channel between its from and
\* to values and in 0..255, at every frame, the frames of the spring-driven
\* fill and stroke transitions included.
C5_ColoursInGradient ==
    /\ last.op = "MyComposition" =>
          /\ InGradient(last.out.head.fillRgb, Rgb(0, 0, 0),
                        Rgb(253, 246, 227))
          /\ InGradient(last.out.head.strokeRgb, Rgb(173, 173, 173),
                        Rgb(82, 111, 118))
          /\ ~last.out.threw =>
                 \A ch \in {"r", "g", "b"} :
                     last.out.tail.backgroundRgb[ch] \in 0..255
    /\ last.op = "DiagonalGrid" =>
          InGradient(last.out.gridRgb, Rgb(0, 0, 0), Rgb(39, 39, 39))

\* The palette with the channel values each hex string stands for.
PALETTE ==
    {<<COLORS.white, Rgb(255, 255, 255)>>, <<COLORS.black, Rgb(0, 0, 0)>>,
     <<COLORS.shadowGrey, Rgb(39, 39, 39)>>,
     <<COLORS.silver, Rgb(173, 173, 173)>>, <<COLORS.teal, Rgb(0, 130, 130)>>,
     <<COLORS.blueSlate, Rgb(82, 111, 118)>>,
     <<COLORS.eggshell, Rgb(238, 232, 213)>>,
     <<COLORS.ivoryMist, Rgb(253, 246, 227)>>}

PaletteRgb(hex) == (CHOOSE e \in PALETTE : e[1] = hex)[2]

\* The integer nearest to n / Q, halves upwards.
Nearest(n) == CHOOSE k \in 0..255 : 2 * k * Q <= 2 * n + Q /\ 2 * n + Q < 2 * (k + 1) * Q

\* C6: interpolateColor(from, to, p) is "rgb(r, g, b)" with each channel
\* round(from + (to - from) * p); at p = 0 it is from and at p = 1 it is to,
\* channel for channel; black to ivoryMist at p = 1/2 is (127, 123, 114).
C6_BlendRoundTrip ==
    last.op = "interpolateColor" =>
        LET a == PaletteRgb(last.from)
            b == PaletteRgb(last.to)
            p == last.progress
        IN  /\ last.color =
                 RgbString(Nearest(a.r * Q + (b.r - a.r) * p),
                           Nearest(a.g * Q + (b.g - a.g) * p),
                           Nearest(a.b * Q + (b.b - a.b) * p))
            /\ p = 0 => last.color = RgbString(a.r, a.g, a.b)
            /\ p = Q => last.color = RgbString(b.r, b.g, b.b)
            /\ (last.from = COLORS.black /\ last.to = COLORS.ivoryMist
                /\ 2 * p = Q) => last.color = "rgb(127, 123, 114)"

C6_Witness ==
    /\ last.op = "interpolateColor"
    /\ last.from = COLORS.black
    /\ last.to = COLORS.ivoryMist
    /\ 2 * last.progress = Q
    /\ last.color = "rgb(127, 123, 114)"

\* A well-formed hex colour: an optional "#" and three or six hex digits.
WellFormedHex(hex) ==
    LET digits == IF Len(hex) > 0 /\ hex[1] = "#" THEN Tail(hex) ELSE hex
    IN  Len(digits) \in {3, 6} /\ \A i \in 1..Len(digits) : IsHexDigit(digits[i])

\* C7: both hexToRgb implementations return white (255, 255, 255) for
\* every string that is not a well-formed hex colour.
C7_FallbackWhite ==
    (last.op = "hexToRgb" /\ ~WellFormedHex(last.hex)) =>
        last.rgb = Rgb(255, 255, 255)

\* The declarations evaluated so far.
Declared == {TIMING_DECLS[k] : k \in 1..pc}

DeclaredBefore(k) == {TIMING_DECLS[j].name : j \in 1..(k - 1)}

\* No declaration evaluated so far read a constant declared after it.
NoForwardReference ==
    /\ ~loadError
    /\ \A k \in 1..pc : TIMING_DECLS[k].uses \subseteq DeclaredBefore(k)

\* C8 as stated: no forward reference, and no derived keyframe is earlier
\* than the keyframe it is derived from, GRID_APPEAR_START and
\* FRAME_GROW_START included.
C8_Original ==
    /\ NoForwardReference
    /\ \A d \in Declared : d.base # "" => env[d.name] >= env[d.base]

\* C8 amended: no forward reference; every derived keyframe other than
\* GRID_APPEAR_START is no earlier than the keyframe it is derived from
\* (FRAME_GROW_START relative to GRID_ROTATE_START included), and
\* GRID_APPEAR_START is three frames before SYMBOL_FRAME_DONE.
\* The declarations do not change while an evaluation is outstanding, so
\* the states between evaluations show every value they take.
C8_DerivedKeyframes ==
    last = NoEval =>
        /\ NoForwardReference
        /\ \A d \in Declared :
              d.base # "" =>
                  /\ d.base \in DOMAIN env
                  /\ IF d.name = "GRID_APPEAR_START"
                     THEN env[d.name] = env[d.base] - 3
                     ELSE env[d.name] >= env[d.base]

C8_Witness ==
    /\ Loaded
    /\ env["GRID_APPEAR_START"] < env["SYMBOL_FRAME_DONE"]
    /\ env["FRAME_GROW_START"] > env["GRID_ROTATE_START"]

\* C9: strictly before its trigger frame every spring-driven value is its
\* base value (height 240, exclusion height 245, colour progress 0, pin
\* angle -90 or +90, number scale 0), whatever spring() returns for the
\* negative frame.
C9_BaseBeforeTrigger ==
    /\ (last.op = "SymbolFrame" /\ last.frame < FRAME_GROW_START) =>
           last.out.height = 240 * Q
    /\ (last.op = "DiagonalGrid" /\ last.frame < FRAME_GROW_START) =>
           last.out.exclusionHeight = 245 * Q
    /\ last.op = "MyComposition" =>
           /\ last.frame < FILL_COLOR_TRANSITION_START =>
                  last.out.head.fillProgress = 0
           /\ last.frame < STROKE_COLOR_TRANSITION_START =>
                  last.out.head.strokeProgress = 0
           /\ last.frame < FRAME_GROW_START =>
                  last.out.head.frameHeight = 240 * Q
    /\ last.op = "SymbolPins" =>
           \A i \in DOMAIN last.pins :
               LET start == PINS_SWING_START + i * PINS_SWING_STAGGER
                   pin == last.pins[i]
               IN  /\ last.frame < start =>
                          pin.rotation =
                              (IF i < 3 THEN 0 - 90 ELSE 90) * Q
                   /\ (pin.rendered
                       /\ last.frame < start + PIN_NUMBER.appearDelay) =>
                          pin.numberScale = 0

C9_Witness ==
    /\ last.op = "SymbolFrame"
    /\ last.frame = FRAME_GROW_START - 1
    /\ last.pre # 0
    /\ last.out.height = 240 * Q

\* C10: the growth of the symbol frame is triggered at frame 62
\* (FRAME_GROW_START = 62, height 240 at every frame before 62), and the
\* keyframes derived from it are fill 65, stroke 66, pins 68, second text 70.
C10_GrowthAtFrame62 ==
    /\ Loaded =>
          /\ env["FRAME_GROW_START"] = 62
          /\ env["FILL_COLOR_TRANSITION_START"] = 65
          /\ env["STROKE_COLOR_TRANSITION_START"] = 66
          /\ env["PINS_SWING_START"] = 68
          /\ env["SECOND_TEXT_START"] = 70
    /\ (last.op = "SymbolFrame" /\ last.frame < 62) =>
          last.out.height = 240 * Q

\* C11: the frame-growth spring overshoots and settles: there is a frame in
\* the 15 frames after the trigger with the height above 320 (in particular
\* at trigger + 6), and from trigger + 15 on the height stays within 0.5
\* pixel of 320, up to the last frame evaluated.
SETTLE_TOLERANCE == Q \div 2

C11_OvershootAndSettle ==
    /\ \E e \in 1..15 : spring(GROWTH_SPRING, e, 0) > Q
    /\ (last.op = "SymbolFrame" /\ last.frame = FRAME_GROW_START + 6) =>
           last.out.height > FRAME_GROW_TARGET_HEIGHT * Q
    /\ (last.op = "SymbolFrame" /\ last.frame >= FRAME_GROW_START + 15) =>
           Abs(last.out.height - FRAME_GROW_TARGET_HEIGHT * Q)
               <= SETTLE_TOLERANCE

C11_Witness ==
    /\ last.op = "SymbolFrame"
    /\ last.frame = FRAME_GROW_START + 6
    /\ last.out.height > FRAME_GROW_TARGET_HEIGHT * Q

\* C12: at every frame each subtitle opacity is in [0, 1] and at most one
\* is increasing; in each 10-frame transition window the opacity fading out
\* and the one fading in sum to 1 (the third is 0); outside the windows
\* exactly one subtitle has opacity 1 and the other two have opacity 0.
InSubtitleTransition(f) ==
    \/ /\ f > SUBTITLE_PHASE_2_START
       /\ f < SUBTITLE_PHASE_2_START + SUBTITLE_TRANSITION_DURATION
    \/ /\ f > SUBTITLE_PHASE_3_START
       /\ f < SUBTITLE_PHASE_3_START + SUBTITLE_TRANSITION_DURATION

C12_SubtitleCrossFade ==
    last.op = "Subtitles" =>
        LET o == last.opacity
            n == SubtitleOpacities(last.frame + 1)
        IN  /\ \A k \in 1..3 : o[k] >= 0 /\ o[k] <= Q
            /\ Cardinality({k \in 1..3 : n[k] > o[k]}) <= 1
            /\ o[1] + o[2] + o[3] = Q
            /\ (last.frame >= SUBTITLE_PHASE_2_START
                /\ last.frame <= SUBTITLE_PHASE_2_START
                                     + SUBTITLE_TRANSITION_DURATION) =>
                   o[1] + o[2] = Q /\ o[3] = 0
            /\ (last.frame >= SUBTITLE_PHASE_3_START
                /\ last.frame <= SUBTITLE_PHASE_3_START
                                     + SUBTITLE_TRANSITION_DURATION) =>
                   o[2] + o[3] = Q /\ o[1] = 0
            /\ ~InSubtitleTransition(last.frame) =>
                   /\ Cardinality({k \in 1..3 : o[k] = Q}) = 1
                   /\ Cardinality({k \in 1..3 : o[k] = 0}) = 2

C12_Witness ==
    /\ last.op = "Subtitles"
    /\ last.frame = SUBTITLE_PHASE_3_START + 3
    /\ last.opacity[2] > 0 /\ last.opacity[2] < Q
    /\ last.opacity[3] > 0 /\ last.opacity[3] < Q

\* C13: the text suck-in exit.  Before SUCK_IN_START every wordlet's exit
\* state is the identity (offset 0, opacity 1, scale 1); within
\* [SUCK_IN_START, SUCK_IN_END) the opacity does not increase from one frame
\* to the next and the scale is at least 0.5 (0.4 with per-wordlet
\* targets); from SUCK_IN_END on the opacity is 0 and the text container
\* is not rendered.
SuckInScaleFloor(variant) == IF variant = "sides" THEN Q \div 2 ELSE (4 * Q) \div 10

C13_SuckInExit ==
    last.op = "TextSuckIn" =>
        LET a == last.out.anim
            n == TextSuckIn(last.variant, last.frame + 1, last.index)
        IN  /\ last.frame < SUCK_IN_START =>
                   /\ a = SuckIn(0, 0, Q, Q)
                   /\ last.out.textVisible
            /\ (last.frame >= SUCK_IN_START /\ last.frame < SUCK_IN_END) =>
                   /\ n.opacity <= a.opacity
                   /\ a.opacity >= 0 /\ a.opacity <= Q
                   /\ a.scale >= SuckInScaleFloor(last.variant)
            /\ last.frame >= SUCK_IN_END =>
                   /\ a.opacity = 0
                   /\ ~last.out.textVisible

C13_Witness ==
    /\ last.op = "TextSuckIn"
    /\ last.variant = "targets"
    /\ last.frame = SUCK_IN_END - 1
    /\ last.out.textVisible
    /\ last.out.anim.opacity > 0 /\ last.out.anim.opacity < Q \div 2

\* C14: getLineFrameIntersection(0, 90, 120, 120) is 120 plus the 2-pixel
\* buffer, 122.
C14_VerticalLineThroughCentre ==
    (/\ last.op = "getLineFrameIntersection"
     /\ last.lineYPos = 0 /\ last.angleDeg = 90
     /\ last.frameHalfW = 120 /\ last.frameHalfH = 120) =>
        last.out = [finite |-> TRUE, v |-> 122 * Q]

\* The crossings of the line with the right, top and bottom edges of the
\* frame that lie on the edge (valid) and ahead on the line (positive),
\* from the geometry: the point at distance x along the line is
\* (x cosA - lineYPos sinA, x sinA + lineYPos cosA).
PositiveValidCrossings(lineYPos, angleDeg, frameHalfW, frameHalfH) ==
    LET cosA == MathCos(angleDeg)
        sinA == MathSin(angleDeg)
        right == IF cosA = 0 THEN {}
                 ELSE LET x == ((frameHalfW * Q + lineYPos * sinA) * Q)
                                   \div cosA
                      IN  IF Abs((x * sinA) \div Q + lineYPos * cosA)
                                 <= frameHalfH * Q
                          THEN {x} ELSE {}
        horizontal(yEdge) ==
            IF sinA = 0 THEN {}
            ELSE LET x == ((yEdge * Q - lineYPos * cosA) * Q) \div sinA
                 IN  IF Abs((x * cosA) \div Q - lineYPos * sinA)
                            <= frameHalfW * Q
                     THEN {x} ELSE {}
    IN  {x \in right \cup horizontal(frameHalfH)
                   \cup horizontal(0 - frameHalfH) : x > 0}

\* C15: getLineFrameIntersection is total and finite for every line and
\* angle, also with cosA or sinA zero, and returns the smallest valid
\* positive crossing (right, top or bottom edge) plus 2, or 150 when
\* there is none.
C15_SmallestCrossingOrDefault ==
    last.op = "getLineFrameIntersection" =>
        LET crossings == PositiveValidCrossings(
                             last.lineYPos, last.angleDeg,
                             last.frameHalfW, last.frameHalfH)
        IN  /\ last.out.finite
            /\ last.out.v = IF crossings # {}
                            THEN SetMin(crossings) + 2 * Q
                            ELSE 150 * Q

\* What does hold of every evaluation: the result is finite, and it is
\* either the default or a crossing ahead on the line plus the buffer.
LineFrameIntersectionFinite ==
    last.op = "getLineFrameIntersection" =>
        /\ last.out.finite
        /\ last.out.v = 150 * Q \/ last.out.v > 2 * Q

\* The phase of an opening letter, read off what the composition shows:
\* 0 PRE_ENTRY (opacity 0, offset 25), 1 ENTERING, 2 SETTLED (offset 0,
\* opacity 1), 3 GONE (container not rendered).
OpeningLetterPhase(frame, index) ==
    LET l == OpeningLetter(frame, index)
    IN  IF ~l.rendered THEN 3
        ELSE IF l.enterAnim = Anim(WORD_START_OFFSET * Q, 0) THEN 0
        ELSE IF l.enterAnim = Anim(0, Q) THEN 2
        ELSE 1

\* C16: as the frame grows every opening letter goes PRE_ENTRY -> ENTERING
\* -> SETTLED -> GONE in that order: it is in PRE_ENTRY at frame 0, the
\* phase never goes back from one frame to the next, every phase is taken
\* at some frame, GONE is taken exactly from OPENING_TEXT_DISAPPEAR_START
\* on, and the letter is SETTLED on the frame before it is hidden.
C16_OpeningLetterPhases ==
    last.op = "getOpeningLetterAnimation" =>
        LET i == last.index
            f == last.frame
        IN  /\ last.anim = OpeningLetter(f, i).enterAnim
            /\ OpeningLetterPhase(f, i) <= OpeningLetterPhase(f + 1, i)
            /\ f <= 0 => OpeningLetterPhase(f, i) = 0
            /\ (OpeningLetterPhase(f, i) = 3)
                   <=> (f >= OPENING_TEXT_DISAPPEAR_START)
            /\ f = 0 =>
                   /\ \A p \in 0..3 :
                          \E g \in 0..OPENING_TEXT_DISAPPEAR_START :
                              OpeningLetterPhase(g, i) = p
                   /\ OpeningLetterPhase(
                          OPENING_TEXT_DISAPPEAR_START - 1, i) = 2

C16_Witness ==
    /\ last.op = "getOpeningLetterAnimation"
    /\ last.index = OPENING_TEXT_LENGTH - 1
    /\ last.frame = OPENING_TEXT_DISAPPEAR_START - 1
    /\ OpeningLetterPhase(last.frame, last.index) = 2
    /\ OpeningLetterPhase(last.frame + 1, last.index) = 3

LETTER_OPS == {"getOpeningLetterAnimation", "getSecondLetterAnimation"}

\* C17 as stated: within the entrance window of a letter the opacity is
\* interpolated from 0 toward 1 along the ease-out curve: it is the eased
\* progress of the window, 0 on the first frame and below 1 before the end.
C17_Original ==
    (/\ last.op \in LETTER_OPS
     /\ last.frame >= WindowStart(last.op, last.index)
     /\ last.frame < WindowEnd(last.op, last.index)) =>
        /\ last.anim.opacity =
               EaseOutCubic(Progress(last.frame,
                                     WindowStart(last.op, last.index),
                                     WindowEnd(last.op, last.index),
                                     TRUE, TRUE))
        /\ last.anim.opacity < Q

\* C17 amended: within the entrance window of a letter only the offset is
\* eased: it starts at the start offset, shrinks on every frame by steps
\* that get smaller (ease-out) and is 0 at the window's end, while the
\* opacity is exactly 1 from the first frame of the window on.
C17_OffsetEasedOpacityStep ==
    (/\ last.op \in LETTER_OPS
     /\ last.frame >= WindowStart(last.op, last.index)
     /\ last.frame < WindowEnd(last.op, last.index)) =>
        LET s == WindowStart(last.op, last.index)
            e == WindowEnd(last.op, last.index)
            a == last.anim
            n == EntranceAt(last.op, last.frame + 1, last.index)
            nn == EntranceAt(last.op, last.frame + 2, last.index)
        IN  /\ a.opacity = Q
            /\ last.frame = s => a.yOffset = WORD_START_OFFSET * Q
            /\ n.yOffset < a.yOffset
            /\ a.yOffset - n.yOffset >= n.yOffset - nn.yOffset
            /\ EntranceAt(last.op, e, last.index) = Anim(0, Q)

C17_Witness ==
    /\ last.op = "getSecondLetterAnimation"
    /\ last.frame = WindowStart(last.op, last.index) + 1
    /\ last.anim.opacity = Q
    /\ last.anim.yOffset > 0
    /\ last.anim.yOffset < WORD_START_OFFSET * Q

\* C18: at every frame exactly one of the three stage elements is
\* rendered: the symbol-frame container before LOGO_ZOOM_START, the
\* standalone logo in [LOGO_ZOOM_START, BROWSER_ZOOM_START), the browser
\* window from BROWSER_ZOOM_START on; and the browser zoom starts on the
\* frame on which the logo zoom ends, LOGO_ZOOM_START + LOGO_ZOOM_DURATION.
C18_OneStageElement ==
    /\ last.op = "StageElements" =>
          LET s == last.stage
              f == last.frame
          IN  /\ Cardinality({k \in DOMAIN s : s[k]}) = 1
              /\ s.symbolFrameContainer <=> f < env["LOGO_ZOOM_START"]
              /\ s.standaloneLogo <=>
                     (f >= env["LOGO_ZOOM_START"]
                      /\ f < env["BROWSER_ZOOM_START"])
              /\ s.browserWindow <=> f >= env["BROWSER_ZOOM_START"]
    /\ Loaded =>
          env["BROWSER_ZOOM_START"] =
              env["LOGO_ZOOM_START"] + env["LOGO_ZOOM_DURATION"]

C18_Witness ==
    /\ last.op = "StageElements"
    /\ last.frame = BROWSER_ZOOM_START
    /\ last.stage.browserWindow
    /\ ~last.stage.standaloneLogo
    /\ StageElements(last.frame - 1).standaloneLogo

\* C19: SymbolFrame draws the six animated segments before
\* SYMBOL_FRAME_DONE and the two joined paths from then on, and whenever it
\* draws the joined paths all six line animations are settled (offset 0,
\* opacity 1).
C19_SwitchAfterLinesSettled ==
    last.op = "SymbolFrame" =>
        /\ last.out.useSegmentLines <=> last.frame < env["SYMBOL_FRAME_DONE"]
        /\ ~last.out.useSegmentLines =>
               \A i \in DOMAIN last.out.lineAnims :
                   last.out.lineAnims[i] = Anim(0, Q)

C19_Witness ==
    /\ last.op = "SymbolFrame"
    /\ last.frame = SYMBOL_FRAME_DONE
    /\ ~last.out.useSegmentLines
    /\ last.out.lineAnims[5] = Anim(0, Q)
    /\ getSymbolLineAnimation(last.frame - 1, 5).yOffset > 0

\* C20: LAST_WORDLET_INDEX is the largest wordlet index of any opening
\* letter, SYMBOL_FRAME_START is WORDLETS_DONE_FRAME, from
\* SYMBOL_FRAME_START on every opening letter is settled, and before it no
\* line of the symbol frame is visible.
C20_SymbolFrameAfterWordlets ==
    /\ (Loaded /\ last = NoEval) =>
          /\ \A i \in 0..(OPENING_TEXT_LENGTH - 1) :
                 getOpeningWordletIndex(i) <= env["LAST_WORDLET_INDEX"]
          /\ \E i \in 0..(OPENING_TEXT_LENGTH - 1) :
                 getOpeningWordletIndex(i) = env["LAST_WORDLET_INDEX"]
          /\ env["LAST_WORDLET_INDEX"] = 8
          /\ env["SYMBOL_FRAME_START"] = env["WORDLETS_DONE_FRAME"]
    /\ (last.op = "getOpeningLetterAnimation"
        /\ last.frame >= SYMBOL_FRAME_START) =>
           last.anim = Anim(0, Q)
    /\ (last.op = "SymbolFrame" /\ last.frame < SYMBOL_FRAME_START) =>
           \A i \in DOMAIN last.out.lineAnims :
               last.out.lineAnims[i].opacity = 0

C20_Witness ==
    /\ last.op = "getOpeningLetterAnimation"
    /\ last.index = OPENING_TEXT_LENGTH - 1
    /\ last.frame = SYMBOL_FRAME_START
    /\ last.anim = Anim(0, Q)
    /\ getOpeningLetterAnimation(last.frame - 1, last.index).yOffset > 0

C22_OutlineClosed ==
    (last.op = "SymbolFrame" /\ last.frame >= LINE_EXTENSION_END) =>
        LET l == last.out.lines
        IN  /\ last.out.extensionProgress = Q
            /\ l[4][4] = l[1][2] /\ l[4][3] = l[1][1]
            /\ l[3][2] = l[6][4] /\ l[3][1] = l[6][3]
            /\ l[4][2] = 0 - last.out.height \div 2
            /\ l[3][4] = last.out.height \div 2

\* The outline is closed while the growth spring is overshooting.
C22_Witness ==
    /\ last.op = "SymbolFrame"
    /\ last.frame > FRAME_GROW_START
    /\ last.out.height > FRAME_GROW_TARGET_HEIGHT * Q
    /\ last.out.lines[4][4] = last.out.lines[1][2]
    /\ last.out.lines[3][2] = last.out.lines[6][4]
    /\ SymbolFrame(LINE_EXTENSION_END - 1, last.pre).lines[4][4]
           < SymbolFrame(LINE_EXTENSION_END - 1, last.pre).lines[1][2]

\* C23: the cursor with the dragged pin is rendered only from
\* CURSOR_DRAG_START on; at every frame from CURSOR_DRAG_START on each of
\* the regular pins 0..4 is drawn, at least 20 frames (the duration of the
\* swing spring) after its own start frame, and within half a degree of
\* horizontal; SymbolPins draws pin 5 at no frame.
C23_CursorAfterRegularPins ==
    /\ last.op = "MouseCursorWithPin" =>
           /\ last.out.rendered => last.frame >= CURSOR_DRAG_START
           /\ last.frame = CURSOR_DRAG_START => last.out.rendered
    /\ last.op = "SymbolPins" =>
           /\ ~last.pins[5].rendered
           /\ last.frame >= CURSOR_DRAG_START =>
                  \A i \in 0..4 :
                      /\ last.pins[i].rendered
                      /\ last.frame - (PINS_SWING_START
                                        + i * PINS_SWING_STAGGER) >= 20
                      /\ Abs(last.pins[i].rotation) <= Q \div 2

\* The last regular pin has had exactly its 20 frames on the frame the
\* cursor appears.
C23_Witness ==
    /\ last.op = "SymbolPins"
    /\ last.frame = CURSOR_DRAG_START
    /\ last.frame - (PINS_SWING_START + 4 * PINS_SWING_STAGGER) = 20
    /\ last.pins[4].rendered
    /\ ~last.pins[5].rendered
    /\ MouseCursorWithPin(last.frame).rendered
    /\ ~MouseCursorWithPin(last.frame - 1).rendered

\* C24: from CURSOR_DRAG_START + CURSOR_DRAG_DURATION on the dragged pin is
\* the horizontal segment from the right edge of the frame (x = 120) to
\* x = 120 + pin length at y = 80, which is the line of pin 5 (right side,
\* y-offset SYMBOL_PINS.right[3], the third entry) swung out; before
\* CURSOR_DRAG_START the component renders nothing.
C24_DraggedPinLandsOnPinFive ==
    last.op = "MouseCursorWithPin" =>
        /\ last.frame >= CURSOR_DRAG_START + CURSOR_DRAG_DURATION =>
               /\ last.out.rendered
               /\ last.out.pin = SymbolPinLine(5)
               /\ last.out.pin =
                      [x1 |-> (SYMBOL_FRAME.width \div 2) * Q,
                       y1 |-> 80 * Q,
                       x2 |-> (SYMBOL_FRAME.width \div 2
                               + SYMBOL_PINS.length) * Q,
                       y2 |-> 80 * Q]
               /\ SYMBOL_PINS.right[3] = 80
        /\ last.frame < CURSOR_DRAG_START => ~last.out.rendered

\* The pin arrives on the frame the sparks start, and was still under way
\* the frame before.
C24_Witness ==
    /\ last.op = "MouseCursorWithPin"
    /\ last.frame = CLICK_SPARK_START
    /\ last.out.showSparks
    /\ last.out.pin = SymbolPinLine(5)
    /\ MouseCursorWithPin(last.frame - 1).pin.x2 > SymbolPinLine(5).x2
    /\ MouseCursorWithPin(last.frame - 1).pin.y1 > SymbolPinLine(5).y1

\* C25: at every frame the exclusion-zone height of the grid is the height
\* of the symbol frame at that frame plus SYMBOL_FRAME.strokeWidth: 245
\* before FRAME_GROW_START, 325 once settled, and equal in between.
C25_ExclusionFollowsFrame ==
    last.op = "DiagonalGrid" =>
        /\ last.out.exclusionHeight =
               SymbolFrame(last.frame, last.pre).height
                   + SYMBOL_FRAME.strokeWidth * Q
        /\ last.frame < FRAME_GROW_START =>
               last.out.exclusionHeight = 245 * Q
        /\ last.frame > FRAME_GROW_START + 15 =>
               last.out.exclusionHeight = 325 * Q

=============================================================================
